---- MODULE Spec2Model ----
(***************************************************************************)
(* Roastulator: the restricted arithmetic evaluator (eval_expr, eval_),    *)
(* the complexity scorer (calculate_complexity, get_complexity_level) of   *)
(* calculator/utils.py and the request handler roast_api of                *)
(* calculator/views.py.                                                    *)
(*                                                                         *)
(* A text is a sequence of one-character strings.  An AST node is a record *)
(*   [type, vt, n, kids]                                                   *)
(* type is the name of the ast class, kids are the node's child nodes in   *)
(* the order ast.iter_child_nodes yields them (operator and context nodes  *)
(* included), n is the value of an integer Constant and vt the Python type *)
(* of a Constant's value.                                                  *)
(***************************************************************************)
EXTENDS Integers, Sequences, FiniteSets, TLC

VARIABLES
  pc,                \* the step the handler, or the function applied, has reached
  request,           \* the body of the HTTP request
  expression,        \* the text handed to eval_expr and calculate_complexity
  node,              \* the tree handed to eval_
  tree,              \* the tree calculate_complexity walks
  result,            \* what eval_expr (or eval_) returned or raised
  complexity_score,
  complexity_level,
  roast_message,
  response,          \* the JsonResponse of roast_api
  calls,             \* the functions of utils the handler has called, in order
  raised             \* the exception that left the last function applied, "" if none

vars == <<pc, request, expression, node, tree, result, complexity_score,
          complexity_level, roast_message, response, calls, raised>>

-----------------------------------------------------------------------------
(* Bounds of the model *)

MaxLen == 4

MaxPad == 4

MaxNodes == 5

MaxScore == 60

Digits == {"0", "1", "2", "3", "4", "5", "6", "7", "8", "9"}

NameChars == {"x"}

\* the characters of the enumerated texts
Alphabet == {"0", "2", "x", "+", "-", "*", "/", "(", ")"}

-----------------------------------------------------------------------------
(* AST nodes *)

Leaf(t) == [type |-> t, vt |-> "", n |-> 0, kids |-> <<>>]

Nil == Leaf("")

Constant(v) == [type |-> "Constant", vt |-> "int", n |-> v, kids |-> <<>>]

StrConstant == [type |-> "Constant", vt |-> "str", n |-> 0, kids |-> <<>>]

Name == [type |-> "Name", vt |-> "", n |-> 0, kids |-> <<Leaf("Load")>>]

TupleNode == [type |-> "Tuple", vt |-> "", n |-> 0, kids |-> <<Leaf("Load")>>]

BinOp(l, o, r) == [type |-> "BinOp", vt |-> "", n |-> 0, kids |-> <<l, Leaf(o), r>>]

UnaryOp(o, x) == [type |-> "UnaryOp", vt |-> "", n |-> 0, kids |-> <<Leaf(o), x>>]

Starred(x) == [type |-> "Starred", vt |-> "", n |-> 0, kids |-> <<x, Leaf("Load")>>]

Keyword(x) == [type |-> "keyword", vt |-> "", n |-> 0, kids |-> <<x>>]

Call(f, args) == [type |-> "Call", vt |-> "", n |-> 0, kids |-> <<f>> \o args]

Expr(x) == [type |-> "Expr", vt |-> "", n |-> 0, kids |-> <<x>>]

Module(body) == [type |-> "Module", vt |-> "", n |-> 0, kids |-> body]

-----------------------------------------------------------------------------
(* The tokenizer of ast.parse, on the characters of Alphabet *)

Token(k, v) == [k |-> k, v |-> v]

ErrorToken == Token("ERRORTOKEN", 0)

IsDigit(c) == c \in Digits

IsNameChar(c) == c \in NameChars \cup Digits

DigitVal(c) ==
  CASE c = "0" -> 0 [] c = "1" -> 1 [] c = "2" -> 2 [] c = "3" -> 3 [] c = "4" -> 4
    [] c = "5" -> 5 [] c = "6" -> 6 [] c = "7" -> 7 [] c = "8" -> 8 [] c = "9" -> 9

CharAt(s, i) == IF i <= Len(s) THEN s[i] ELSE ""

RECURSIVE RunEnd(_, _, _)
\* the first position at or after i whose character is not in the class
RunEnd(s, i, class) ==
  IF i <= Len(s) /\ s[i] \in class THEN RunEnd(s, i + 1, class) ELSE i

RECURSIVE NumVal(_, _, _, _)
\* the value of the digits s[i..j-1] in the given base
NumVal(s, i, j, base) ==
  IF i >= j THEN 0 ELSE NumVal(s, i, j - 1, base) * base + DigitVal(s[j - 1])

AllZero(s, i, j) == \A k \in i..(j - 1) : s[k] = "0"

RECURSIVE Lex(_, _)
Lex(s, i) ==
  IF i > Len(s) THEN <<>>
  ELSE LET c == s[i] IN
    IF c = " " THEN Lex(s, i + 1)
    ELSE IF IsDigit(c) THEN
      LET j == RunEnd(s, i, Digits) IN
      IF j = i + 1 /\ c = "0" /\ CharAt(s, j) = "x" THEN
        \* hexadecimal literal 0x...
        LET h == RunEnd(s, j + 1, Digits) IN
        IF h = j + 1 \/ IsNameChar(CharAt(s, h)) THEN <<ErrorToken>>
        ELSE <<Token("NUMBER", NumVal(s, j + 1, h, 16))>> \o Lex(s, h)
      ELSE IF IsNameChar(CharAt(s, j)) THEN <<ErrorToken>>
      ELSE IF j > i + 1 /\ c = "0" /\ ~AllZero(s, i, j) THEN <<ErrorToken>>
      ELSE <<Token("NUMBER", NumVal(s, i, j, 10))>> \o Lex(s, j)
    ELSE IF c \in NameChars THEN
      <<Token("NAME", 0)>> \o Lex(s, RunEnd(s, i, NameChars \cup Digits))
    ELSE IF c \in {"*", "/"} /\ CharAt(s, i + 1) = c THEN
      <<Token(c \o c, 0)>> \o Lex(s, i + 2)
    ELSE <<Token(c, 0)>> \o Lex(s, i + 1)

-----------------------------------------------------------------------------
(* The parser of ast.parse, on the grammar these tokens can form *)

Parsed(n, p) == [ok |-> TRUE, node |-> n, pos |-> p]

Fail == [ok |-> FALSE, node |-> Nil, pos |-> 0]

Tok(toks, i) == IF i <= Len(toks) THEN toks[i].k ELSE "ENDMARKER"

BinOpName(k) ==
  CASE k = "+" -> "Add" [] k = "-" -> "Sub" [] k = "*" -> "Mult"
    [] k = "/" -> "Div" [] k = "//" -> "FloorDiv" [] k = "**" -> "Pow"

UnaryOpName(k) == IF k = "+" THEN "UAdd" ELSE "USub"

RECURSIVE Rule(_, _, _, _)
\* The grammar rule r read from token i on.  The rules that extend a node
\* already read (trailers, term_rest, sum_rest) get it as left.
\*   atom:     NAME | NUMBER | '(' ')' | '(' expression ')'
\*   primary:  primary '(' [arguments] ')' | atom
\*   power:    primary '**' factor | primary
\*   factor:   '+' factor | '-' factor | power
\*   term:     term ('*' | '/' | '//') factor | factor
\*   sum:      sum ('+' | '-') term | term
\* With these tokens every expression is a sum.
Rule(r, toks, left, i) ==
  LET k == Tok(toks, i) IN
  CASE r = "atom" ->
      IF k = "NUMBER" THEN Parsed(Constant(toks[i].v), i + 1)
      ELSE IF k = "NAME" THEN Parsed(Name, i + 1)
      ELSE IF k = "(" THEN
        IF Tok(toks, i + 1) = ")" THEN Parsed(TupleNode, i + 2)
        ELSE LET e == Rule("sum", toks, Nil, i + 1) IN
             IF e.ok /\ Tok(toks, e.pos) = ")" THEN Parsed(e.node, e.pos + 1)
             ELSE Fail
      ELSE Fail
    [] r = "trailers" ->
      IF k # "(" THEN Parsed(left, i)
      ELSE IF Tok(toks, i + 1) = ")" THEN Rule("trailers", toks, Call(left, <<>>), i + 2)
      ELSE
        LET k1 == Tok(toks, i + 1)
            e == Rule("sum", toks, Nil, IF k1 \in {"*", "**"} THEN i + 2 ELSE i + 1)
            arg == IF k1 = "*" THEN Starred(e.node)
                   ELSE IF k1 = "**" THEN Keyword(e.node) ELSE e.node
        IN IF e.ok /\ Tok(toks, e.pos) = ")"
           THEN Rule("trailers", toks, Call(left, <<arg>>), e.pos + 1)
           ELSE Fail
    [] r = "primary" ->
      LET a == Rule("atom", toks, Nil, i) IN
      IF a.ok THEN Rule("trailers", toks, a.node, a.pos) ELSE Fail
    [] r = "power" ->
      LET p == Rule("primary", toks, Nil, i) IN
      IF p.ok /\ Tok(toks, p.pos) = "**" THEN
        LET f == Rule("factor", toks, Nil, p.pos + 1) IN
        IF f.ok THEN Parsed(BinOp(p.node, "Pow", f.node), f.pos) ELSE Fail
      ELSE p
    [] r = "factor" ->
      IF k \in {"+", "-"} THEN
        LET f == Rule("factor", toks, Nil, i + 1) IN
        IF f.ok THEN Parsed(UnaryOp(UnaryOpName(k), f.node), f.pos) ELSE Fail
      ELSE Rule("power", toks, Nil, i)
    [] r = "term_rest" ->
      IF k \in {"*", "/", "//"} THEN
        LET f == Rule("factor", toks, Nil, i + 1) IN
        IF f.ok THEN Rule("term_rest", toks, BinOp(left, BinOpName(k), f.node), f.pos)
        ELSE Fail
      ELSE Parsed(left, i)
    [] r = "term" ->
      LET f == Rule("factor", toks, Nil, i) IN
      IF f.ok THEN Rule("term_rest", toks, f.node, f.pos) ELSE Fail
    [] r = "sum_rest" ->
      IF k \in {"+", "-"} THEN
        LET t == Rule("term", toks, Nil, i + 1) IN
        IF t.ok THEN Rule("sum_rest", toks, BinOp(left, BinOpName(k), t.node), t.pos)
        ELSE Fail
      ELSE Parsed(left, i)
    [] r = "sum" ->
      LET t == Rule("term", toks, Nil, i) IN
      IF t.ok THEN Rule("sum_rest", toks, t.node, t.pos) ELSE Fail

Expression(toks, i) == Rule("sum", toks, Nil, i)

\* star_expression: '*' bitwise_or | expression
StarExpression(toks, i) ==
  IF Tok(toks, i) = "*" THEN
    LET e == Rule("sum", toks, Nil, i + 1) IN
    IF e.ok THEN Parsed(Starred(e.node), e.pos) ELSE Fail
  ELSE Expression(toks, i)

RECURSIVE SimpleStmts(_, _, _)
\* simple_stmts: simple_stmt (';' simple_stmt)* [';'] ; the result's node is
\* a Module whose kids are the statements read so far
SimpleStmts(toks, body, i) ==
  LET s == StarExpression(toks, i) IN
  IF ~s.ok THEN Fail
  ELSE LET b == Append(body, Expr(s.node)) IN
    IF Tok(toks, s.pos) = "ENDMARKER" THEN Parsed(Module(b), s.pos)
    ELSE IF Tok(toks, s.pos) # ";" THEN Fail
    ELSE IF Tok(toks, s.pos + 1) = "ENDMARKER" THEN Parsed(Module(b), s.pos + 1)
    ELSE SimpleStmts(toks, b, s.pos + 1)

Blank(s) == \A i \in 1..Len(s) : s[i] = " "

HasErrorToken(toks) == \E i \in 1..Len(toks) : toks[i].k = "ERRORTOKEN"

\* ast.parse(expr, mode): [ok |-> TRUE, node |-> tree], where the tree is the
\* body of the Expression in mode 'eval' and the Module in mode 'exec', or
\* ok = FALSE when ast.parse raises SyntaxError (IndentationError included)
ast_parse(expr, mode) ==
  IF Blank(expr) THEN
    IF mode = "exec" THEN Parsed(Module(<<>>), 1) ELSE Fail
  ELSE IF expr[1] = " " THEN Fail
  ELSE LET toks == Lex(expr, 1) IN
    IF HasErrorToken(toks) THEN Fail
    ELSE IF mode = "exec" THEN SimpleStmts(toks, <<>>, 1)
    ELSE LET e == Expression(toks, 1) IN
         IF e.ok /\ Tok(toks, e.pos) = "ENDMARKER" THEN e ELSE Fail

-----------------------------------------------------------------------------
(* Python numbers.  A number is [n, d, fl] : the rational n/d in lowest     *)
(* terms with d > 0, fl telling a float from an int.  Inexact stands for a  *)
(* number the exact arithmetic does not represent (an irrational or complex *)
(* power, an integer beyond ExactLimit); the model does not follow its      *)
(* value.  A float is the rational it rounds: no input of Texts or Trees    *)
(* has a float result that Python rounds to or away from zero.              *)

ExactLimit == 1000000000

Inexact == [n |-> 0, d |-> 0, fl |-> TRUE]

IsExact(a) == a.d > 0

Abs(x) == IF x < 0 THEN -x ELSE x

RECURSIVE Gcd(_, _)
Gcd(a, b) == IF b = 0 THEN a ELSE Gcd(b, a % b)

Norm(n, d, fl) ==
  LET g == Gcd(Abs(n), Abs(d))
      s == IF d < 0 THEN -1 ELSE 1
  IN [n |-> s * (n \div g), d |-> s * (d \div g), fl |-> fl]

IntVal(v) == [n |-> v, d |-> 1, fl |-> FALSE]

Returned(v) == [st |-> "return", exc |-> "", msg |-> "", v |-> v]

Raised(exc, msg) == [st |-> "raise", exc |-> exc, msg |-> msg, v |-> IntVal(0)]

NoResult == [st |-> "none", exc |-> "", msg |-> "", v |-> IntVal(0)]

\* b ** e for a natural e, or -1 when the power exceeds ExactLimit
RECURSIVE NatPow(_, _)
NatPow(b, e) ==
  IF e = 0 THEN 1
  ELSE IF b >= 2 /\ e >= 30 THEN -1
  ELSE LET r == NatPow(b, e - 1) IN
       IF r < 0 THEN -1
       ELSE IF b # 0 /\ r > ExactLimit \div b THEN -1
       ELSE r * b

\* (n/d) ** e for a natural e
RatNatPow(a, e, fl) ==
  LET pn == NatPow(Abs(a.n), e)
      pd == NatPow(a.d, e)
      sg == IF a.n < 0 /\ e % 2 = 1 THEN -1 ELSE 1
  IN IF pn < 0 \/ pd < 0 THEN Inexact ELSE Norm(sg * pn, pd, fl)

\* a float power x ** e, e a natural: beyond 2 ** 1024 it is out of the float
\* range, below 2 ** -1075 it rounds to 0.0
FloatNatPow(a, e) ==
  IF Abs(a.n) >= 2 * a.d /\ e >= 1024
  THEN Raised("OverflowError", "(34, 'Numerical result out of range')")
  ELSE IF 2 * Abs(a.n) <= a.d /\ e >= 1075 THEN Returned([n |-> 0, d |-> 1, fl |-> TRUE])
  ELSE Returned(RatNatPow(a, e, TRUE))

op_add(a, b) ==
  IF ~IsExact(a) \/ ~IsExact(b) THEN Returned(Inexact)
  ELSE Returned(Norm(a.n * b.d + b.n * a.d, a.d * b.d, a.fl \/ b.fl))

op_sub(a, b) ==
  IF ~IsExact(a) \/ ~IsExact(b) THEN Returned(Inexact)
  ELSE Returned(Norm(a.n * b.d - b.n * a.d, a.d * b.d, a.fl \/ b.fl))

op_mul(a, b) ==
  IF ~IsExact(a) \/ ~IsExact(b) THEN Returned(Inexact)
  ELSE Returned(Norm(a.n * b.n, a.d * b.d, a.fl \/ b.fl))

\* a faulty division that returns a value for a zero divisor: C3 tells it
\* from op_truediv
op_truediv_unchecked(a, b) ==
  IF ~IsExact(a) \/ ~IsExact(b) \/ b.n = 0 THEN Returned(Inexact)
  ELSE Returned(Norm(a.n * b.d, a.d * b.n, TRUE))

op_truediv(a, b) ==
  IF IsExact(b) /\ b.n = 0 THEN
    Raised("ZeroDivisionError",
           IF a.fl \/ b.fl THEN "float division by zero" ELSE "division by zero")
  ELSE IF ~IsExact(a) \/ ~IsExact(b) THEN Returned(Inexact)
  ELSE Returned(Norm(a.n * b.d, a.d * b.n, TRUE))

\* int ** natural is an int; every other power is computed in floats (or is
\* complex, for a negative base and a fractional exponent)
op_pow(a, b) ==
  IF ~IsExact(a) \/ ~IsExact(b) THEN Returned(Inexact)
  ELSE IF a.n = 0 /\ b.n < 0 THEN
    Raised("ZeroDivisionError", "0.0 cannot be raised to a negative power")
  ELSE IF b.d = 1 THEN
    IF b.n >= 0 /\ ~a.fl /\ ~b.fl THEN Returned(RatNatPow(a, b.n, FALSE))
    ELSE IF b.n >= 0 THEN FloatNatPow(a, b.n)
    ELSE FloatNatPow([n |-> (IF a.n < 0 THEN -1 ELSE 1) * a.d, d |-> Abs(a.n),
                      fl |-> TRUE], -b.n)
  ELSE IF a.n = 0 THEN Returned([n |-> 0, d |-> 1, fl |-> TRUE])
  ELSE IF a.n = 1 /\ a.d = 1 THEN Returned([n |-> 1, d |-> 1, fl |-> TRUE])
  ELSE Returned(Inexact)

op_neg(a) ==
  IF ~IsExact(a) THEN Returned(Inexact)
  ELSE Returned([n |-> -a.n, d |-> a.d, fl |-> a.fl])

-----------------------------------------------------------------------------
(* Safe expression evaluation *)

\* a faulty dictionary, in which Sub is bound to add: C1 tells it from operators
operators_sub_as_add ==
  [Add |-> "add", Sub |-> "add", Mult |-> "mul", Div |-> "truediv",
   Pow |-> "pow", USub |-> "neg"]

\* the dictionary operators: ast operator class -> function of module operator
operators ==
  [Add |-> "add", Sub |-> "sub", Mult |-> "mul", Div |-> "truediv",
   Pow |-> "pow", USub |-> "neg"]

\* operators[type(op)](a, b)
Call2(f, a, b) ==
  CASE f = "add" -> op_add(a, b)
    [] f = "sub" -> op_sub(a, b)
    [] f = "mul" -> op_mul(a, b)
    [] f = "truediv" -> op_truediv(a, b)
    [] f = "pow" -> op_pow(a, b)
    [] OTHER -> Raised("TypeError", "neg expected 1 argument, got 2")

\* operators[type(op)](a)
Call1(f, a) ==
  IF f = "neg" THEN op_neg(a)
  ELSE Raised("TypeError", f \o " expected 2 arguments, got 1")

KeyErrorOf(o) == Raised("KeyError", "<class 'ast." \o o \o "'>")

\* a faulty test that takes every constant, a string too, for a number: C2
\* tells it from IsNum
IsNum_any_constant(nd) == nd.type = "Constant"

\* isinstance(node, ast.Num)
IsNum(nd) == nd.type = "Constant" /\ nd.vt \in {"int", "float", "complex"}

RECURSIVE eval_(_)
eval_(nd) ==
  IF IsNum(nd) THEN Returned([n |-> nd.n, d |-> 1, fl |-> nd.vt # "int"])
  ELSE IF nd.type = "BinOp" THEN
    LET o == nd.kids[2].type IN
    IF o \notin DOMAIN operators THEN KeyErrorOf(o)
    ELSE LET l == eval_(nd.kids[1]) IN
      IF l.st = "raise" THEN l
      ELSE LET r == eval_(nd.kids[3]) IN
        IF r.st = "raise" THEN r
        ELSE Call2(operators[o], l.v, r.v)
  ELSE IF nd.type = "UnaryOp" THEN
    LET o == nd.kids[1].type IN
    IF o \notin DOMAIN operators THEN KeyErrorOf(o)
    ELSE LET x == eval_(nd.kids[2]) IN
      IF x.st = "raise" THEN x
      ELSE Call1(operators[o], x.v)
  ELSE Raised("TypeError", "Unsupported type: " \o nd.type)

\* faulty except clauses that give every failure the one generic message: C8
\* tells them from eval_expr_except
eval_expr_except_generic(o) ==
  IF o.st # "raise" THEN o
  ELSE Raised("ValueError", "An unexpected error occurred during evaluation.")

\* the except clauses of eval_expr, applied to the outcome of its try block
eval_expr_except(o) ==
  IF o.st # "raise" THEN o
  ELSE IF o.exc \in {"TypeError", "SyntaxError", "KeyError", "ZeroDivisionError"}
  THEN Raised("ValueError", "Invalid or unsafe expression: " \o o.msg)
  ELSE Raised("ValueError", "An unexpected error occurred during evaluation.")

\* the try block of eval_expr, p being what ast.parse(expr, mode='eval') did
\* ("invalid syntax" stands for the text of any SyntaxError)
eval_expr_try(p) ==
  IF ~p.ok THEN Raised("SyntaxError", "invalid syntax") ELSE eval_(p.node)

eval_expr(expr) == eval_expr_except(eval_expr_try(ast_parse(expr, "eval")))

-----------------------------------------------------------------------------
(* Complexity scoring *)

RECURSIVE SumSeq(_)
SumSeq(s) == IF s = <<>> THEN 0 ELSE Head(s) + SumSeq(Tail(s))

\* a faulty loop body that adds 1 for a power, not 3: C4 tells it from NodeScore
NodeScore_power_once(nd) ==
  (IF nd.type = "BinOp"
   THEN 1 + (IF nd.kids[2].type \in {"Mult", "Div"} THEN 1 ELSE 0)
   ELSE 0)
  + (IF nd.type = "Pow" THEN 1 ELSE 0)

\* a faulty loop body that takes 2 off for a product or a quotient: C9 tells
\* it from NodeScore
NodeScore_product_discount(nd) ==
  (IF nd.type = "BinOp"
   THEN 1 - (IF nd.kids[2].type \in {"Mult", "Div"} THEN 2 ELSE 0)
   ELSE 0)
  + (IF nd.type = "Pow" THEN 3 ELSE 0)

\* what the body of the loop over ast.walk adds to score for one node
NodeScore(nd) ==
  (IF nd.type = "BinOp"
   THEN 1 + (IF nd.kids[2].type \in {"Mult", "Div"} THEN 1 ELSE 0)
   ELSE 0)
  + (IF nd.type = "Pow" THEN 3 ELSE 0)

RECURSIVE WalkScore(_)
\* the loop over ast.walk(tree): every node of the tree once
WalkScore(nd) ==
  NodeScore(nd) + SumSeq([i \in 1..Len(nd.kids) |-> WalkScore(nd.kids[i])])

\* expr.count(c)
Count(expr, c) == Cardinality({i \in 1..Len(expr) : expr[i] = c})

\* the try block of calculate_complexity, p being what ast.parse(expr) did
calculate_complexity_try(expr, p) ==
  IF ~p.ok THEN Raised("SyntaxError", "invalid syntax")
  ELSE Returned(WalkScore(p.node) + (Len(expr) \div 5) + Count(expr, "(") * 2)

\* a faulty except clause that answers 0 whatever the try block did: C6 tells
\* it from calculate_complexity_except
calculate_complexity_except_always(o) == Returned(0)

\* a faulty except clause that catches nothing: C7 tells it from
\* calculate_complexity_except
calculate_complexity_except_nothing(o) == o

\* the except clause of calculate_complexity
calculate_complexity_except(o) ==
  IF o.st = "raise" /\ o.exc \in {"SyntaxError", "ValueError"} THEN Returned(0) ELSE o

calculate_complexity(expr) ==
  calculate_complexity_except(calculate_complexity_try(expr, ast_parse(expr, "exec")))

\* faulty thresholds, exclusive where the code's are inclusive: C5 tells them
\* from get_complexity_level
get_complexity_level_exclusive(score) ==
  IF score < 3 THEN "Very Simple"
  ELSE IF score < 7 THEN "Easy"
  ELSE IF score < 12 THEN "Moderate"
  ELSE IF score < 20 THEN "Hard"
  ELSE "Very Hard"

get_complexity_level(score) ==
  IF score <= 3 THEN "Very Simple"
  ELSE IF score <= 7 THEN "Easy"
  ELSE IF score <= 12 THEN "Moderate"
  ELSE IF score <= 20 THEN "Hard"
  ELSE "Very Hard"

-----------------------------------------------------------------------------
(* Gemini API integration: what generate_roast can return.  The key lookup  *)
(* and the remote call belong to the environment, so the result is one of   *)
(* the three strings the function can produce.                              *)

tone_map ==
  ("Very Simple" :> "extremely disappointed") @@ ("Easy" :> "unimpressed")
  @@ ("Moderate" :> "backhanded compliment") @@ ("Hard" :> "sarcastically asking")
  @@ ("Very Hard" :> "accusing them of cheating")

NoKeyRoast == "API key not configured. The developer is probably getting roasted for this."

SpeechlessRoast == "I'm speechless. Not because I'm impressed, but because my brain broke."

generate_roast(expr, score, level) ==
  LET roast_style == IF level \in DOMAIN tone_map THEN tone_map[level] ELSE "sarcastic"
  IN {NoKeyRoast, "roast: " \o roast_style, SpeechlessRoast}

-----------------------------------------------------------------------------
(* Inputs *)

\* A \cup B; taking A's cardinality first makes TLC sort A, so that the
\* union looks B's elements up in A by binary search
Cup(A, B) == IF Cardinality(A) >= 0 THEN A \cup B ELSE B

RECURSIVE Strings(_)
\* the texts of at most k characters of Alphabet
Strings(k) ==
  IF k = 0 THEN {<<>>}
  ELSE LET S == Strings(k - 1) IN Cup(S, {Append(s, c) : s \in S, c \in Alphabet})

Spaces(k) == [i \in 1..k |-> " "]

\* the expressions the documentation of the engine gives as examples, and a
\* few more: an indented text, a quotient that is no binary fraction, a
\* float power out of range, two texts of statements
SumOfProduct == <<"2", " ", "+", " ", "3", " ", "*", " ", "4">>

ProductOfSum == <<"(", "2", "+", "3", ")", "*", "4">>

TenthPower == <<"2", "*", "*", "1", "0">>

NegatedSum == <<"-", "3", " ", "+", " ", "5">>

MissingOperand == <<"2", " ", "+">>

UnclosedParen == <<"(", "2", "+", "3">>

TwoStatements == <<"1", ";", " ", "2">>

NamePlusOne == <<"x", " ", "+", " ", "1">>

FiveByZero == <<"5", "/", "0">>

ZeroByFive == <<"0", "/", "5">>

TwoPlus == <<"2", "+">>

TwoPlusTwo == <<"2", "+", "2">>

TwoTimesTwo == <<"2", "*", "2">>

TwoSquared == <<"2", "*", "*", "2">>

Indented == <<" ", "2">>

OneTenth == <<"2", " ", "/", " ", "2", "0">>

FloatOverflow == <<"(", "2", "/", "1", ")", "*", "*", "9", "9", "9", "9">>

StatementAndProduct == <<"2", ";", "2", "*", "2">>

ParenthesizedStatement == <<"(", "2", ")", ";">>

Examples ==
  {SumOfProduct, ProductOfSum, TenthPower, NegatedSum,
   MissingOperand, UnclosedParen, TwoStatements, NamePlusOne,
   FiveByZero, ZeroByFive, TwoPlus, TwoPlusTwo,
   TwoTimesTwo, TwoSquared, Indented, OneTenth,
   FloatOverflow, StatementAndProduct, ParenthesizedStatement}

\* every text of at most MaxLen characters over Alphabet, the examples, and
\* every one of them that parses followed by up to MaxPad spaces
Texts ==
  LET S == Cup(Strings(MaxLen), Examples) IN
  Cup(S, {s \o Spaces(k) : s \in {u \in S : ast_parse(u, "exec").ok}, k \in 1..MaxPad})

LeafNodes == {Constant(0), Constant(2), Name, StrConstant}

UnaryOps == {"USub", "UAdd"}

BinaryOps == {"Add", "Sub", "Mult", "Div", "Pow", "Mod"}

RECURSIVE BinOpsOver(_, _, _)
\* the BinOp trees whose operands are drawn from T[i] and T[k - i], i <= j
BinOpsOver(T, k, j) ==
  IF j = 0 THEN {}
  ELSE Cup(BinOpsOver(T, k, j - 1),
           {BinOp(l, o, r) : l \in T[j], o \in BinaryOps, r \in T[k - j]})

RECURSIVE TreesBySize(_)
\* <<T1, ..., Tk>>, Ti the expression trees of exactly i expression nodes
TreesBySize(k) ==
  IF k = 1 THEN <<LeafNodes>>
  ELSE LET T == TreesBySize(k - 1) IN
       Append(T, Cup(BinOpsOver(T, k - 1, k - 2),
                     {UnaryOp(o, x) : o \in UnaryOps, x \in T[k - 1]}))

RECURSIVE TreesUpTo(_, _)
TreesUpTo(T, k) == IF k = 0 THEN {} ELSE Cup(TreesUpTo(T, k - 1), T[k])

Trees == TreesUpTo(TreesBySize(MaxNodes), MaxNodes)

Scores == (0 - MaxScore)..MaxScore

-----------------------------------------------------------------------------------------------------------------------------------------------------
(* The request handler roast_api *)

NoText == <<"None">>

NoRequest == [kind |-> "none", expression |-> NoText]

NoResponse == [status |-> 0, error |-> "", roast |-> "", result |-> NoResult,
               complexity_score |-> -1, complexity_level |-> ""]

ErrorResponse(code, err, roast) ==
  [status |-> code, error |-> err, roast |-> roast, result |-> NoResult,
   complexity_score |-> -1, complexity_level |-> ""]

BrokeRoast == "You broke the calculator. Are you proud of yourself?"

ServerError(msg) ==
  ErrorResponse(500, "An unexpected server error occurred: " \o msg, "")

\* request bodies: not JSON, a JSON array, a JSON object without the key
\* 'expression', a JSON object with an expression text
Requests ==
  {[kind |-> "invalid", expression |-> NoText], [kind |-> "array", expression |-> NoText],
   [kind |-> "object", expression |-> NoText]}
  \cup {[kind |-> "object", expression |-> t] : t \in Texts}

Init ==
  /\ pc = "roast_api"
  /\ request = NoRequest
  /\ expression = NoText
  /\ node = Nil /\ tree = Nil /\ result = NoResult /\ complexity_score = -1
  /\ complexity_level = "" /\ roast_message = "" /\ response = NoResponse
  /\ calls = <<>> /\ raised = ""

\* a request arrives: json.loads, data.get('expression'), "if not expression"
ReadRequest ==
  /\ pc = "roast_api"
  /\ \E req \in Requests :
       /\ request' = req
       /\ IF req.kind = "invalid" THEN
            /\ response' = ErrorResponse(400, "Invalid JSON in request body.", "")
            /\ raised' = "JSONDecodeError"
            /\ pc' = "done" /\ UNCHANGED expression
          ELSE IF req.kind = "array" THEN
            /\ response' = ServerError("'list' object has no attribute 'get'")
            /\ raised' = "AttributeError"
            /\ pc' = "done" /\ UNCHANGED expression
          ELSE
            /\ expression' = req.expression
            /\ UNCHANGED raised
            /\ IF req.expression \in {NoText, <<>>} THEN
                 /\ response' = ErrorResponse(400, "Expression not provided.", "")
                 /\ pc' = "done"
               ELSE pc' = "eval_expr" /\ UNCHANGED response
  /\ UNCHANGED <<node, tree, result, complexity_score, complexity_level,
                 roast_message, calls>>

\* a faulty handler step that goes on to the scorer after a failure of
\* eval_expr: C10 tells it from CallEvalExpr
CallEvalExpr_no_short_circuit ==
  /\ pc = "eval_expr"
  /\ calls' = Append(calls, "eval_expr")
  /\ result' = eval_expr(expression)
  /\ pc' = "calculate_complexity"
  /\ UNCHANGED <<request, expression, node, tree, complexity_score, complexity_level,
                 roast_message, response, raised>>

\* result = utils.eval_expr(expression) and the except clause around it
CallEvalExpr ==
  /\ pc = "eval_expr"
  /\ calls' = Append(calls, "eval_expr")
  /\ LET r == eval_expr(expression) IN
     /\ result' = r
     /\ IF r.st # "raise" THEN pc' = "calculate_complexity" /\ UNCHANGED <<response, raised>>
        ELSE /\ pc' = "done"
             /\ raised' = r.exc
             /\ response' =
                  IF r.exc \in {"ValueError", "TypeError", "ZeroDivisionError"}
                  THEN ErrorResponse(400, r.msg, BrokeRoast)
                  ELSE ServerError(r.msg)
  /\ UNCHANGED <<request, expression, node, tree, complexity_score, complexity_level,
                 roast_message>>

\* complexity_score = utils.calculate_complexity(expression)
CallCalculateComplexity ==
  /\ pc = "calculate_complexity"
  /\ calls' = Append(calls, "calculate_complexity")
  /\ LET o == calculate_complexity(expression) IN
     IF o.st = "raise" THEN
       /\ raised' = o.exc /\ response' = ServerError(o.msg) /\ pc' = "done"
       /\ UNCHANGED complexity_score
     ELSE
       /\ complexity_score' = o.v /\ pc' = "get_complexity_level"
       /\ UNCHANGED <<raised, response>>
  /\ UNCHANGED <<request, expression, node, tree, result, complexity_level,
                 roast_message>>

\* complexity_level = utils.get_complexity_level(complexity_score)
CallGetComplexityLevel ==
  /\ pc = "get_complexity_level"
  /\ calls' = Append(calls, "get_complexity_level")
  /\ complexity_level' = get_complexity_level(complexity_score)
  /\ pc' = "generate_roast"
  /\ UNCHANGED <<request, expression, node, tree, result, complexity_score,
                 roast_message, response, raised>>

\* roast_message = utils.generate_roast(expression, complexity_score, complexity_level)
CallGenerateRoast ==
  /\ pc = "generate_roast"
  /\ calls' = Append(calls, "generate_roast")
  /\ roast_message' \in generate_roast(expression, complexity_score, complexity_level)
  /\ pc' = "respond"
  /\ UNCHANGED <<request, expression, node, tree, result, complexity_score,
                 complexity_level, response, raised>>

\* JsonResponse({...}): a result the model does not follow (Inexact) may be a
\* complex number, which json cannot serialize; the handler then answers 500
JsonResponses ==
  {[status |-> 200, error |-> "", roast |-> roast_message, result |-> result,
    complexity_score |-> complexity_score, complexity_level |-> complexity_level]}
  \cup (IF IsExact(result.v) THEN {}
        ELSE {ServerError("Object of type complex is not JSON serializable")})

Respond ==
  /\ pc = "respond"
  /\ \E resp \in JsonResponses :
       /\ response' = resp
       /\ raised' = IF resp.status = 200 THEN "" ELSE "TypeError"
  /\ pc' = "done"
  /\ UNCHANGED <<request, expression, node, tree, result, complexity_score,
                 complexity_level, roast_message, calls>>

Next ==
  \/ ReadRequest
  \/ CallEvalExpr
  \/ CallCalculateComplexity
  \/ CallGetComplexityLevel
  \/ CallGenerateRoast
  \/ Respond

Spec == Init /\ [][Next]_vars

-----------------------------------------------------------------------------
(* The functions of utils.py applied to bounded inputs: eval_ and the       *)
(* except clauses of eval_expr to every tree of Trees; eval_expr,           *)
(* calculate_complexity and get_complexity_level to every text of Texts;    *)
(* get_complexity_level to every score of Scores.                           *)

InitPure ==
  /\ pc = "start"
  /\ request = NoRequest
  /\ expression = NoText
  /\ node = Nil /\ tree = Nil /\ result = NoResult /\ complexity_score = -1
  /\ complexity_level = "" /\ roast_message = "" /\ response = NoResponse
  /\ calls = <<>> /\ raised = ""

\* eval_(node)
ApplyEval ==
  /\ pc = "start"
  /\ \E t \in Trees :
       /\ node' = t
       /\ result' = eval_(t)
       /\ raised' = eval_(t).exc
  /\ pc' = "eval_"
  /\ UNCHANGED <<request, expression, tree, complexity_score, complexity_level,
                 roast_message, response, calls>>

\* the except clauses of eval_expr on what eval_ did
ApplyExcept ==
  /\ pc = "eval_"
  /\ result' = eval_expr_except(result)
  /\ raised' = eval_expr_except(result).exc
  /\ pc' = "except"
  /\ UNCHANGED <<request, expression, node, tree, complexity_score, complexity_level,
                 roast_message, response, calls>>

\* eval_expr(expression); node is the tree its ast.parse gave eval_
ApplyEvalExpr ==
  /\ pc = "start"
  /\ \E text \in Texts :
       LET p == ast_parse(text, "eval")
           r == eval_expr_except(eval_expr_try(p))
       IN /\ expression' = text
          /\ node' = p.node
          /\ result' = r
          /\ raised' = r.exc
  /\ pc' = "eval_expr"
  /\ UNCHANGED <<request, tree, complexity_score, complexity_level,
                 roast_message, response, calls>>

\* calculate_complexity(expression); tree is what its ast.parse returned
ApplyCalculateComplexity ==
  /\ pc = "eval_expr"
  /\ LET p == ast_parse(expression, "exec")
         o == calculate_complexity_except(calculate_complexity_try(expression, p))
     IN /\ tree' = p.node
        /\ complexity_score' = IF o.st = "return" THEN o.v ELSE -1
        /\ raised' = o.exc
  /\ pc' = "calculate_complexity"
  /\ UNCHANGED <<request, expression, node, result, complexity_level,
                 roast_message, response, calls>>

\* get_complexity_level(complexity_score) on the score of a text
ApplyGetComplexityLevel ==
  /\ pc = "calculate_complexity"
  /\ raised = ""
  /\ complexity_level' = get_complexity_level(complexity_score)
  /\ pc' = "get_complexity_level"
  /\ UNCHANGED <<request, expression, node, tree, result, complexity_score,
                 roast_message, response, calls, raised>>

\* get_complexity_level(score) on any score
ApplyLevelToScore ==
  /\ pc = "start"
  /\ \E score \in Scores :
       /\ complexity_score' = score
       /\ complexity_level' = get_complexity_level(score)
  /\ pc' = "level"
  /\ UNCHANGED <<request, expression, node, tree, result, roast_message,
                 response, calls, raised>>

NextPure ==
  \/ ApplyEval
  \/ ApplyExcept
  \/ ApplyEvalExpr
  \/ ApplyCalculateComplexity
  \/ ApplyGetComplexityLevel
  \/ ApplyLevelToScore

SpecPure == InitPure /\ [][NextPure]_vars

-----------------------------------------------------------------------------
(* Vocabulary of the properties: the whitelist, the arithmetic a node       *)
(* denotes, and the shape of a tree, each written down from the            *)
(* documentation of the engine and independently of eval_ and of the       *)
(* scorer.                                                                  *)

RECURSIVE SubTrees(_)
\* the nodes of a tree, the tree itself included
SubTrees(nd) == {nd} \cup UNION {SubTrees(nd.kids[i]) : i \in 1..Len(nd.kids)}

WhitelistedOperators == {"Add", "Sub", "Mult", "Div", "Pow"}

RECURSIVE Whitelisted(_)
\* a tree of number literals, unary negations and the five binary operators
Whitelisted(nd) ==
  \/ nd.type = "Constant" /\ nd.vt = "int"
  \/ /\ nd.type = "UnaryOp" /\ nd.kids[1].type = "USub"
     /\ Whitelisted(nd.kids[2])
  \/ /\ nd.type = "BinOp" /\ nd.kids[2].type \in WhitelistedOperators
     /\ Whitelisted(nd.kids[1]) /\ Whitelisted(nd.kids[3])

IsZero(o) == o.st = "return" /\ IsExact(o.v) /\ o.v.n = 0

IsNegative(o) == o.st = "return" /\ IsExact(o.v) /\ o.v.n < 0

\* some division of the tree has a right operand that evaluates to zero
HasZeroDivisor(nd) ==
  \E s \in SubTrees(nd) :
    s.type = "BinOp" /\ s.kids[2].type = "Div" /\ IsZero(eval_(s.kids[3]))

\* some power of the tree has a zero base and a negative exponent
HasZeroToNegative(nd) ==
  \E s \in SubTrees(nd) :
    /\ s.type = "BinOp" /\ s.kids[2].type = "Pow"
    /\ IsZero(eval_(s.kids[1])) /\ IsNegative(eval_(s.kids[3]))

\* some float power of the tree is out of the float range
HasPowerOutOfRange(nd) ==
  \E s \in SubTrees(nd) :
    /\ s.type = "BinOp" /\ s.kids[2].type = "Pow"
    /\ eval_(s.kids[1]).st = "return" /\ eval_(s.kids[3]).st = "return"
    /\ eval_(s).exc = "OverflowError"

RECURSIVE Times(_, _)
\* b multiplied e times by itself
Times(b, e) == IF e = 0 THEN 1 ELSE b * Times(b, e - 1)

\* v is l <op> r, as an equation between fractions; a power the exact
\* arithmetic does not follow is left open
Combines(o, l, r, v) ==
  CASE o = "Add" -> IsExact(v) /\ v.n * (l.d * r.d) = (l.n * r.d + r.n * l.d) * v.d
    [] o = "Sub" -> IsExact(v) /\ v.n * (l.d * r.d) = (l.n * r.d - r.n * l.d) * v.d
    [] o = "Mult" -> IsExact(v) /\ v.n * (l.d * r.d) = (l.n * r.n) * v.d
    [] o = "Div" -> IsExact(v) /\ v.n * (l.d * r.n) = (l.n * r.d) * v.d
    [] o = "Pow" /\ IsExact(v) /\ r.d = 1 /\ r.n >= 0 ->
         v.n * Times(l.d, r.n) = Times(l.n, r.n) * v.d
    [] o = "Pow" /\ IsExact(v) /\ r.d = 1 /\ r.n < 0 ->
         v.n * Times(l.n, -r.n) = Times(l.d, -r.n) * v.d
    [] OTHER -> TRUE

\* v is the value the root of nd denotes, given the values of its operands
Denotes(nd, v) ==
  IF nd.type = "Constant" THEN v = IntVal(nd.n)
  ELSE IF nd.type = "UnaryOp" THEN
    LET x == eval_(nd.kids[2]).v IN
    IsExact(x) => (v.n = -x.n /\ v.d = x.d)
  ELSE
    LET l == eval_(nd.kids[1]).v
        r == eval_(nd.kids[3]).v
    IN (IsExact(l) /\ IsExact(r)) => Combines(nd.kids[2].type, l, r, v)

\* the trees the evaluator's contract is about
Evaluable(nd) ==
  /\ Whitelisted(nd)
  /\ ~HasZeroDivisor(nd) /\ ~HasZeroToNegative(nd) /\ ~HasPowerOutOfRange(nd)

-----------------------------------------------------------------------------
(* Properties of the evaluator *)

C2_RejectsOutsideWhitelist ==
  /\ (pc = "eval_" /\ ~Whitelisted(node)) => result.st = "raise"
  /\ (pc = "except" /\ ~Whitelisted(node))
       => (result.st = "raise" /\ result.exc = "ValueError")
  /\ (pc = "eval_expr" /\ (node = Nil \/ ~Whitelisted(node)))
       => (result.st = "raise" /\ result.exc = "ValueError")
  /\ (pc = "eval_expr"
      /\ expression \in {<<>>, MissingOperand, UnclosedParen, TwoStatements})
       => (node = Nil /\ result.st = "raise")
  /\ (pc = "eval_expr" /\ expression = NamePlusOne)
       => (node # Nil /\ ~Whitelisted(node) /\ result.st = "raise")

\* 2 / (0 % 2): the modulo sits below a whitelisted division
C2_Witness ==
  /\ pc = "except"
  /\ node = BinOp(Constant(2), "Div", BinOp(Constant(0), "Mod", Constant(2)))
  /\ result.st = "raise" /\ result.exc = "ValueError"

ZeroDivisionMessages ==
  {"division by zero", "float division by zero",
   "0.0 cannot be raised to a negative power"}

InvalidOrUnsafe(msgs) == {"Invalid or unsafe expression: " \o m : m \in msgs}

\* C3: a tree in which some Div node's right operand evaluates to zero never
\* evaluates to a value, whatever the left operand and wherever the division
\* sits: eval_ raises, a ZeroDivisionError when the tree is whitelisted, and
\* eval_expr fails with the ValueError that carries its text; '5/0' fails
\* with "division by zero" and '0/5' returns 0.
C3_DivisionByZero ==
  /\ (pc = "eval_" /\ HasZeroDivisor(node))
       => /\ result.st = "raise"
          /\ Whitelisted(node) => result.exc = "ZeroDivisionError"
  /\ (pc = "except" /\ HasZeroDivisor(node))
       => /\ result.st = "raise" /\ result.exc = "ValueError"
          /\ Whitelisted(node) => result.msg \in InvalidOrUnsafe(ZeroDivisionMessages)
  /\ (pc = "eval_expr" /\ node # Nil /\ HasZeroDivisor(node))
       => (result.st = "raise" /\ result.exc = "ValueError")
  /\ (pc = "eval_expr" /\ expression = FiveByZero)
       => result = Raised("ValueError", "Invalid or unsafe expression: division by zero")
  /\ (pc = "eval_expr" /\ expression = ZeroByFive)
       => result = Returned([n |-> 0, d |-> 1, fl |-> TRUE])

\* 2 / (2 - 2): the divisor is a computed zero
C3_Witness ==
  /\ pc = "except"
  /\ node = BinOp(Constant(2), "Div", BinOp(Constant(2), "Sub", Constant(2)))
  /\ result = Raised("ValueError", "Invalid or unsafe expression: division by zero")

-----------------------------------------------------------------------------
(* Properties of the scorer *)

AnyOperator == {"Add", "Sub", "Mult", "Div", "FloorDiv", "Mod", "Pow"}

RECURSIVE BinOpCount(_, _)
\* the binary-operator nodes of a tree whose operator is one of ops
BinOpCount(nd, ops) ==
  (IF nd.type = "BinOp" /\ nd.kids[2].type \in ops THEN 1 ELSE 0)
  + SumSeq([i \in 1..Len(nd.kids) |-> BinOpCount(nd.kids[i], ops)])

RECURSIVE OpenParens(_)
\* the '(' characters of a text
OpenParens(text) ==
  IF text = <<>> THEN 0
  ELSE (IF Head(text) = "(" THEN 1 ELSE 0) + OpenParens(Tail(text))

\* the score the documentation gives a text with syntax tree t
DocumentedScore(text, t) ==
  BinOpCount(t, AnyOperator) + BinOpCount(t, {"Mult", "Div"})
  + 3 * BinOpCount(t, {"Pow"}) + (Len(text) \div 5) + 2 * OpenParens(text)

\* C4: for every input text that parses, calculate_complexity returns
\* (binary-operator nodes) + (those whose operator is Mult or Div)
\* + 3 * (power operations) + floor(len(text) / 5) + 2 * (number of '('),
\* length and '(' count taken on the untrimmed text; unary negation adds 0.
C4_ScoreFormula ==
  (pc = "calculate_complexity" /\ tree # Nil)
    => (raised = "" /\ complexity_score = DocumentedScore(expression, tree))

\* (2+3)*4 followed by three spaces: two operators, one a product, one pair
\* of parentheses, ten characters
C4_Witness ==
  /\ pc = "calculate_complexity"
  /\ expression = ProductOfSum \o Spaces(3)
  /\ tree # Nil
  /\ complexity_score = 7

LevelOrder == <<"Very Simple", "Easy", "Moderate", "Hard", "Very Hard">>

Rank(level) == CHOOSE i \in 1..Len(LevelOrder) : LevelOrder[i] = level

\* C5: get_complexity_level is total on the integers and returns Very Simple
\* for score <= 3, Easy for 4..7, Moderate for 8..12, Hard for 13..20 and
\* Very Hard for score >= 21; it is monotone non-decreasing in the score
\* under the order Very Simple < Easy < Moderate < Hard < Very Hard.
C5_LevelThresholds ==
  pc = "level" =>
    /\ \E i \in 1..Len(LevelOrder) : LevelOrder[i] = complexity_level
    /\ complexity_level = "Very Simple" <=> complexity_score <= 3
    /\ complexity_level = "Easy" <=> complexity_score \in 4..7
    /\ complexity_level = "Moderate" <=> complexity_score \in 8..12
    /\ complexity_level = "Hard" <=> complexity_score \in 13..20
    /\ complexity_level = "Very Hard" <=> complexity_score >= 21
    /\ Rank(complexity_level) <= Rank(get_complexity_level(complexity_score + 1))

\* the first score that is Very Hard
C5_Witness ==
  pc = "level" /\ complexity_score = 21 /\ complexity_level = "Very Hard"

C7_UnparseableScoresZero ==
  /\ (pc \in {"calculate_complexity", "get_complexity_level"} /\ tree = Nil)
       => (complexity_score = 0 /\ raised = "")
  /\ (pc = "get_complexity_level" /\ tree = Nil) => complexity_level = "Very Simple"
  /\ (pc = "calculate_complexity" /\ expression \in {TwoPlus, UnclosedParen})
       => tree = Nil

\* '(2+3': an unparseable text with a '(' in it
C7_Witness ==
  /\ pc = "get_complexity_level"
  /\ expression = UnclosedParen
  /\ tree = Nil
  /\ complexity_score = 0
  /\ complexity_level = "Very Simple"

\* the text with a multiply, divide or power operator and its operand added
\* after it or before it
WithOperator(text) ==
  {text \o <<"*", "2">>, text \o <<"/", "2">>, text \o <<"*", "*", "2">>,
   <<"2", "*">> \o text, <<"2", "/">> \o text, <<"2", "*", "*">> \o text}

\* C9: adding a multiply, divide or power operator with its operand to a
\* parseable expression never decreases the score calculate_complexity
\* returns, and score('2+2') < score('2*2') < score('2**2').
C9_ScoreMonotone ==
  /\ (pc = "calculate_complexity" /\ node # Nil)
       => \A text \in WithOperator(expression) :
            /\ calculate_complexity(text).st = "return"
            /\ calculate_complexity(text).v >= complexity_score
  /\ (pc = "calculate_complexity" /\ expression = TwoPlusTwo)
       => complexity_score < calculate_complexity(TwoTimesTwo).v
  /\ (pc = "calculate_complexity" /\ expression = TwoTimesTwo)
       => complexity_score < calculate_complexity(TwoSquared).v

\* '2*2' scores 2, and with a power added after it, '2*2**2', it scores 7
C9_Witness ==
  /\ pc = "calculate_complexity"
  /\ expression = TwoTimesTwo
  /\ complexity_score = 2
  /\ calculate_complexity(TwoTimesTwo \o <<"*", "*", "2">>) = Returned(7)

-----------------------------------------------------------------------------
(* Properties of the failures of eval_expr *)

GenericMessage == "An unexpected error occurred during evaluation."

\* what eval_expr says of a text that does not parse
SyntaxMessages == InvalidOrUnsafe({"invalid syntax"})

\* what eval_expr says of a node or an operator outside the whitelist
DisallowedMessages ==
  InvalidOrUnsafe({"Unsupported type: " \o t :
                     t \in {"Name", "Constant", "Tuple", "Call", "Starred"}}
                  \cup {"<class 'ast." \o o \o "'>" : o \in {"Mod", "FloorDiv", "UAdd"}})

\* what eval_expr says of an arithmetic failure
EvaluationMessages == InvalidOrUnsafe(ZeroDivisionMessages) \cup {GenericMessage}

-----------------------------------------------------------------------------
(* Properties of the request handler *)

CallOrder == <<"eval_expr", "calculate_complexity", "get_complexity_level", "generate_roast">>

\* the level the documentation gives a score
DocumentedLevel(score) ==
  CASE score <= 3 -> "Very Simple"
    [] score \in 4..7 -> "Easy"
    [] score \in 8..12 -> "Moderate"
    [] score \in 13..20 -> "Hard"
    [] OTHER -> "Very Hard"

\* C10: in roast_api a failure of eval_expr short-circuits both downstream
\* paths: the handler answers 400 with the error text and the fixed "You
\* broke the calculator" roast, and neither calculate_complexity nor
\* generate_roast is invoked; only after eval_expr has succeeded are
\* calculate_complexity, get_complexity_level and generate_roast invoked, in
\* that order, and the 200 response carries the result, the roast, the score
\* and the level derived from that same score.
C10_ShortCircuit ==
  /\ \E k \in 0..Len(CallOrder) : calls = SubSeq(CallOrder, 1, k)
  /\ result.st = "raise" =>
       /\ calls = <<"eval_expr">> /\ pc = "done"
       /\ response = [status |-> 400, error |-> result.msg,
                      roast |-> "You broke the calculator. Are you proud of yourself?",
                      result |-> NoResult, complexity_score |-> -1,
                      complexity_level |-> ""]
  /\ Len(calls) > 1 => result.st = "return"
  /\ response.status = 200 =>
       /\ calls = CallOrder /\ result.st = "return"
       /\ response.result = result /\ response.roast = roast_message
       /\ response.complexity_score = complexity_score
       /\ response.complexity_level = DocumentedLevel(response.complexity_score)
       /\ roast_message \in generate_roast(expression, complexity_score,
                                           response.complexity_level)

\* '5/0' answered 400 after the one call of eval_expr
C10_Witness ==
  /\ pc = "done"
  /\ expression = FiveByZero
  /\ calls = <<"eval_expr">>
  /\ response.status = 400
  /\ response.error = "Invalid or unsafe expression: division by zero"
  /\ response.roast = BrokeRoast

====
